---- MODULE Spec2Model ----
(***************************************************************************)
(* Model of "Concurrency & Thread Safety/ThreadSafetyDemo.cpp".            *)
(*                                                                         *)
(* main() builds three counters one after the other (UnsafeCounter,        *)
(* SafeCounterOnlyMutex, SafeCounterAtomic); for each it starts two        *)
(* threads t1 and t2 that call increment() in a fixed loop, joins them and *)
(* prints the counter.  A state holds main's position, the three counter   *)
(* objects, the mutex of the locked counter, and for every thread its      *)
(* position, its loop variable i and the value it has loaded from count.   *)
(*                                                                         *)
(* The loop bound of the source (1000) is scaled down to Iterations.       *)
(***************************************************************************)
EXTENDS Integers, FiniteSets, Sequences, TLC

\* Loop bound of the worker lambdas ("i < 1000" in the source), scaled down.
Iterations == 3

\* The two threads t1 and t2 every runThreads* function creates.
Workers == {1, 2}

\* The order in which main runs the three demonstrations.
RunOrder == <<"unsafe", "safe", "atomic">>

Variants == {"unsafe", "safe", "atomic"}

\* "int count = 0" / "atomic<int> count{0}": the value a new counter holds.
NewCounter == 0

\* A std::mutex nobody has locked (its state after construction).
NoHolder == 0

VARIABLES
    codegen,  \* how the racy loop of runThreadsUnsafe was compiled
    run,      \* index into RunOrder of the demonstration main is at
    pcMain,   \* main's position inside that demonstration
    count,    \* count member of every counter object constructed so far
    mtx,      \* safeObj.mtx: NoHolder, or the thread that holds it
    pc,       \* pc[v][w]: position of thread w of demonstration v
    i,        \* i[v][w]: loop variable of that thread's lambda
    reg,      \* reg[v][w]: the value of count that thread has loaded
    out       \* the values main has printed, by demonstration

vars == <<codegen, run, pcMain, count, mtx, pc, i, reg, out>>

\* The demonstration main is currently at.
Variant == RunOrder[run]

\* The lambdas capture the counter by reference ("[&counter]"): thread w of
\* demonstration v works on the object main passed to that runThreads*.
CounterShared(v) == "unsafe"
CounterOf(v) == v

(***************************************************************************)
(* UnsafeCounter::increment is a data race, hence undefined behaviour.     *)
(* Two compilations of the loop around it are modelled: "loop" performs a  *)
(* load and a store of count per iteration, "folded" is the optimised      *)
(* build in which the loop is folded into one load and one store of        *)
(* count + 1000.  Stride is what one load/store pair adds.                 *)
(***************************************************************************)
Stride == IF codegen = "folded" THEN Iterations ELSE 1

\* What one pass of thread w of demonstration v adds to count and to i.
StepOf(v) == IF v = "unsafe" THEN Stride ELSE 1

\* Loop test of the lambdas: "i < 1000".
LoopCondOffByOne(v, w) == i[v][w] <= Iterations
LoopCond(v, w) == i[v][w] < Iterations

\* First position inside increment(), by counter class.
Entry(v) ==
    CASE v = "unsafe" -> "read"
      [] v = "safe"   -> "lock"
      [] v = "atomic" -> "rmw"

\* "for (...; i < 1000; ...) counter.increment();": test and call, or leave
\* the loop and finish the thread.
LoopTest(v, w) ==
    /\ pc[v][w] = "loop"
    /\ pc' = [pc EXCEPT ![v][w] = IF LoopCond(v, w) THEN Entry(v) ELSE "done"]
    /\ UNCHANGED <<codegen, run, pcMain, count, mtx, i, reg, out>>

\* increment() returns and the loop runs "++i".
Return(v, w) ==
    /\ pc[v][w] = "ret"
    /\ i' = [i EXCEPT ![v][w] = @ + StepOf(v)]
    /\ pc' = [pc EXCEPT ![v][w] = "loop"]
    /\ UNCHANGED <<codegen, run, pcMain, count, mtx, reg, out>>

----------------------------------------------------------------------------
\* UnsafeCounter::increment: "count++" on a plain int, a load and a store.

UnsafeRead(w) ==
    /\ pc["unsafe"][w] = "read"
    /\ reg' = [reg EXCEPT !["unsafe"][w] = count[CounterOf("unsafe")]]
    /\ pc' = [pc EXCEPT !["unsafe"][w] = "write"]
    /\ UNCHANGED <<codegen, run, pcMain, count, mtx, i, out>>

\* The value the store of "count++" writes: computed from the loaded value.
UnsafeWriteValueFresh(w) == count[CounterOf("unsafe")] + Stride
UnsafeWriteValue(w) == reg["unsafe"][w] + Stride

UnsafeWrite(w) ==
    /\ pc["unsafe"][w] = "write"
    /\ count' = [count EXCEPT ![CounterOf("unsafe")] = UnsafeWriteValue(w)]
    /\ pc' = [pc EXCEPT !["unsafe"][w] = "ret"]
    /\ reg' = [reg EXCEPT !["unsafe"][w] = 0]
    /\ UNCHANGED <<codegen, run, pcMain, mtx, i, out>>

----------------------------------------------------------------------------
\* SafeCounterOnlyMutex::increment: lock_guard<mutex> lock(mtx); count++;

\* mutex::lock blocks while another thread holds the mutex.
MutexAvailableAlways == TRUE
MutexAvailable == mtx = NoHolder

\* The holder of mtx while the lock_guard object is alive.
LockHolderTemporary(w) == NoHolder
LockHolder(w) == w

\* The state of mtx after the lock_guard's destructor.
LockGuardLeak(w) == w
LockGuardRelease(w) == NoHolder

SafeLock(w) ==
    /\ pc["safe"][w] = "lock"
    /\ MutexAvailable
    /\ mtx' = LockHolder(w)
    /\ pc' = [pc EXCEPT !["safe"][w] = "cs_read"]
    /\ UNCHANGED <<codegen, run, pcMain, count, i, reg, out>>

SafeRead(w) ==
    /\ pc["safe"][w] = "cs_read"
    /\ reg' = [reg EXCEPT !["safe"][w] = count[CounterOf("safe")]]
    /\ pc' = [pc EXCEPT !["safe"][w] = "cs_write"]
    /\ UNCHANGED <<codegen, run, pcMain, count, mtx, i, out>>

SafeWrite(w) ==
    /\ pc["safe"][w] = "cs_write"
    /\ count' = [count EXCEPT ![CounterOf("safe")] = reg["safe"][w] + 1]
    /\ pc' = [pc EXCEPT !["safe"][w] = "unlock"]
    /\ reg' = [reg EXCEPT !["safe"][w] = 0]
    /\ UNCHANGED <<codegen, run, pcMain, mtx, i, out>>

\* End of the scope: ~lock_guard unlocks mtx.
SafeUnlock(w) ==
    /\ pc["safe"][w] = "unlock"
    /\ mtx' = LockGuardRelease(w)
    /\ pc' = [pc EXCEPT !["safe"][w] = "ret"]
    /\ UNCHANGED <<codegen, run, pcMain, count, i, reg, out>>

----------------------------------------------------------------------------
\* SafeCounterAtomic::increment: "count++" on atomic<int>, one fetch-and-add.

AtomicRacy(w) ==
    \/ /\ pc["atomic"][w] = "rmw"
       /\ reg' = [reg EXCEPT !["atomic"][w] = count[CounterOf("atomic")]]
       /\ pc' = [pc EXCEPT !["atomic"][w] = "rmw_store"]
       /\ UNCHANGED <<codegen, run, pcMain, count, mtx, i, out>>
    \/ /\ pc["atomic"][w] = "rmw_store"
       /\ count' = [count EXCEPT ![CounterOf("atomic")] = reg["atomic"][w] + 1]
       /\ pc' = [pc EXCEPT !["atomic"][w] = "ret"]
       /\ reg' = [reg EXCEPT !["atomic"][w] = 0]
       /\ UNCHANGED <<codegen, run, pcMain, mtx, i, out>>

AtomicFetchAdd(w) ==
    /\ pc["atomic"][w] = "rmw"
    /\ count' = [count EXCEPT ![CounterOf("atomic")] = @ + 1]
    /\ pc' = [pc EXCEPT !["atomic"][w] = "ret"]
    /\ UNCHANGED <<codegen, run, pcMain, mtx, i, reg, out>>

----------------------------------------------------------------------------
\* main and the runThreads* functions it calls.

SpawnAt == <<"spawn1", "spawn2">>
JoinAt == <<"join1", "join2">>

\* "UnsafeCounter unsafeObj;" and its two siblings: a new object, count = 0
\* (and, for the locked counter, an unlocked mutex).
Construct ==
    /\ pcMain = "construct"
    /\ count' = (Variant :> NewCounter) @@ count
    /\ mtx' = IF Variant = "safe" THEN NoHolder ELSE mtx
    /\ pcMain' = "spawn1"
    /\ UNCHANGED <<codegen, run, pc, i, reg, out>>

\* "thread t1(task);" / "thread t2(task);": the thread starts its lambda.
Spawn(w) ==
    /\ pcMain = SpawnAt[w]
    /\ pc' = [pc EXCEPT ![Variant][w] = "loop"]
    /\ i' = [i EXCEPT ![Variant][w] = 0]
    /\ pcMain' = IF w = 1 THEN "spawn2" ELSE "join1"
    /\ UNCHANGED <<codegen, run, count, mtx, reg, out>>

\* thread::join returns once the thread's lambda has returned.
FinishedNoWait(v, w) == TRUE
Finished(v, w) == pc[v][w] = "done"

\* "t1.join();" / "t2.join();": main blocks until thread w has finished.
Join(w) ==
    /\ pcMain = JoinAt[w]
    /\ Finished(Variant, w)
    /\ pcMain' = IF w = 1 THEN "join2" ELSE "print"
    /\ UNCHANGED <<codegen, run, count, mtx, pc, i, reg, out>>

\* runThreads* has returned: "cout << ... << unsafeObj.count << endl;" reads
\* the counter of this demonstration; main goes on to the next one, or
\* returns 0 after the third.
PrintResult ==
    /\ pcMain = "print"
    /\ out' = (Variant :> count[Variant]) @@ out
    /\ IF run < Len(RunOrder)
         THEN run' = run + 1 /\ pcMain' = "construct"
         ELSE run' = run /\ pcMain' = "done"
    /\ UNCHANGED <<codegen, count, mtx, pc, i, reg>>

----------------------------------------------------------------------------

Init ==
    /\ codegen \in {"loop", "folded"}
    /\ run = 1
    /\ pcMain = "construct"
    /\ count = [v \in {} |-> NewCounter]
    /\ out = [v \in {} |-> NewCounter]
    /\ mtx = NoHolder
    /\ pc = [v \in Variants |-> [w \in Workers |-> "idle"]]
    /\ i = [v \in Variants |-> [w \in Workers |-> 0]]
    /\ reg = [v \in Variants |-> [w \in Workers |-> 0]]

WorkerStep(w) ==
    \/ \E v \in Variants : LoopTest(v, w)
    \/ \E v \in Variants : Return(v, w)
    \/ UnsafeRead(w)
    \/ UnsafeWrite(w)
    \/ SafeLock(w)
    \/ SafeRead(w)
    \/ SafeWrite(w)
    \/ SafeUnlock(w)
    \/ AtomicFetchAdd(w)

MainStep ==
    \/ Construct
    \/ \E w \in Workers : Spawn(w)
    \/ \E w \in Workers : Join(w)
    \/ PrintResult

Next ==
    \/ \E w \in Workers : WorkerStep(w)
    \/ MainStep

Spec == Init /\ [][Next]_vars

\* The operating system schedules threads preemptively: a thread that can
\* run is eventually run.
FairSpec ==
    /\ Spec
    /\ \A w \in Workers : WF_vars(WorkerStep(w))
    /\ WF_vars(MainStep)

----------------------------------------------------------------------------
\* Vocabulary of the properties.

RECURSIVE SumOf(_, _)
SumOf(f, S) ==
    IF S = {} THEN 0
    ELSE LET x == CHOOSE y \in S : TRUE IN f[x] + SumOf(f, S \ {x})

\* workers x increments per worker: the "Expected 2000" main prints.
Expected == Cardinality(Workers) * Iterations

Constructed(v) == v \in DOMAIN count
Printed(v) == v \in DOMAIN out

\* Both threads of demonstration v have been joined (runThreads* returned).
AfterJoins(v) == Printed(v) \/ (Variant = v /\ pcMain = "print")

\* Calls of increment() thread w of v has returned from: its loop variable.
Completed(v, w) == i[v][w]

\* Increments whose store to count has been executed: the completed calls and
\* the call that is past its "count++" and has not returned yet.
Performed(v, w) ==
    i[v][w] + (IF pc[v][w] \in {"unlock", "ret"} THEN StepOf(v) ELSE 0)

\* Increments begun: the completed calls and the call in progress.
Started(v, w) ==
    i[v][w] + (IF pc[v][w] \in {"idle", "loop", "done"} THEN 0 ELSE StepOf(v))

CompletedTotal(v) == SumOf([w \in Workers |-> Completed(v, w)], Workers)
PerformedTotal(v) == SumOf([w \in Workers |-> Performed(v, w)], Workers)
StartedTotal(v) == SumOf([w \in Workers |-> Started(v, w)], Workers)

\* Thread w is inside SafeCounterOnlyMutex::increment (called, not returned).
InIncrement(w) ==
    pc["safe"][w] \in {"lock", "cs_read", "cs_write", "unlock", "ret"}

\* Thread w is between acquiring mtx and releasing it.
InGuardedRegion(w) == pc["safe"][w] \in {"cs_read", "cs_write", "unlock"}

----------------------------------------------------------------------------
\* C1: locked counter - whatever the interleaving of the two workers, the
\* value of count after both joins, and the value main prints, is exactly
\* (number of workers) x (increments per worker).
C1_LockedFinalValue ==
    /\ AfterJoins("safe") => count["safe"] = Expected
    /\ Printed("safe") => out["safe"] = Expected

C1_Witness ==
    /\ Printed("safe")
    /\ out["safe"] = Expected
    /\ \A w \in Workers : i["safe"][w] = Iterations

\* C2: atomic counter - whatever the interleaving of the two workers' single
\* indivisible fetch-and-adds, the value of count after both joins, and the
\* value main prints, is exactly (number of workers) x (increments per worker);
\* no mutex is held during the atomic run.
C2_AtomicFinalValue ==
    /\ AfterJoins("atomic") => count["atomic"] = Expected
    /\ Printed("atomic") => out["atomic"] = Expected
    /\ Variant = "atomic" => mtx = NoHolder

C2_Witness ==
    /\ Printed("atomic")
    /\ out["atomic"] = Expected
    /\ \A w \in Workers : i["atomic"][w] = Iterations

\* C3: unprotected counter - the counter is never negative and never above
\* workers x increments, and the value read after both joins lies in the
\* inclusive range [1, workers x increments].
C3_UnprotectedRange ==
    /\ Constructed("unsafe") => count["unsafe"] \in 0..Expected
    /\ AfterJoins("unsafe") => count["unsafe"] \in 1..Expected
    /\ Printed("unsafe") => out["unsafe"] \in 1..Expected

\* A run whose result is below even one worker's own number of increments.
C3_Witness ==
    /\ Printed("unsafe")
    /\ out["unsafe"] < Iterations

\* Thread w executes the store of a "count++" whose load is out of date.
StaleWrite(w) ==
    /\ pc["unsafe"][w] = "write"
    /\ pc'["unsafe"][w] = "ret"
    /\ reg["unsafe"][w] # count["unsafe"]

\* The unprotected counter is below the number of increments performed on it.
Lost == count["unsafe"] < PerformedTotal("unsafe")

\* C4: unprotected counter - a store computed from a stale load loses an
\* update (the counter falls below the number of increments performed), a
\* lost update is never made up for, and so the value read after both joins
\* is then strictly less than workers x increments.
C4_LostUpdate ==
    /\ [][Constructed("unsafe") =>
            /\ (\E w \in Workers : StaleWrite(w)) => Lost'
            /\ Lost => Lost']_vars
    /\ [](AfterJoins("unsafe") /\ Lost => count["unsafe"] < Expected)
    /\ [](Printed("unsafe") /\ Lost => out["unsafe"] < Expected)

\* A run of the unprotected counter that has lost updates and printed less
\* than workers x increments.
C4_Witness ==
    /\ Printed("unsafe")
    /\ Lost
    /\ out["unsafe"] < Expected
    /\ \A w \in Workers : i["unsafe"][w] = Iterations

\* C5: under fair scheduling every demonstration terminates - each worker
\* runs its loop to the end, both joins return, main prints the three results
\* and returns; and a worker waiting for the mutex eventually holds it.
C5_Termination ==
    /\ <>(/\ pcMain = "done"
          /\ \A v \in Variants : Printed(v)
          /\ \A v \in Variants, w \in Workers :
                pc[v][w] = "done" /\ i[v][w] = Iterations)
    /\ \A w \in Workers : (pc["safe"][w] = "lock") ~> (mtx = w)

C5_Witness ==
    /\ pcMain = "done"
    /\ \A v \in Variants, w \in Workers : pc[v][w] = "done"

\* C6: no state leaks between the runs - a counter changes only while it is
\* the counter of the current run and that run's workers exist, every new
\* counter starts at 0 and is still 0 when the first worker is started, and
\* the value printed for a run is the run's own counter, at most the number
\* of increments its own two workers performed.
C6_NoLeak ==
    [][/\ \A v \in DOMAIN count :
             count'[v] # count[v] =>
                 v = Variant /\ pcMain \in {"spawn2", "join1", "join2"}
       /\ \A v \in DOMAIN count' \ DOMAIN count :
             v = Variant /\ count'[v] = 0
       /\ pcMain = "spawn1" => count[Variant] = 0
       /\ \A v \in DOMAIN out' \ DOMAIN out :
             out'[v] = count[v] /\ out'[v] <= PerformedTotal(v)]_vars

\* The locked run is under way while the result of the unprotected run, with
\* lost updates, is still what it was.
C6_Witness ==
    /\ Variant = "safe"
    /\ Constructed("safe")
    /\ count["safe"] > 0
    /\ Printed("unsafe")
    /\ count["unsafe"] = out["unsafe"]
    /\ count["unsafe"] # count["safe"]

\* C7: mutual exclusion in the locked variant - at most one worker is between
\* acquiring mtx and releasing it, and the value a worker has loaded inside
\* the guarded region is still the counter's value when it stores.
C7_MutualExclusion ==
    /\ Cardinality({w \in Workers : InGuardedRegion(w)}) <= 1
    /\ \A w \in Workers :
          pc["safe"][w] = "cs_write" => reg["safe"][w] = count["safe"]

\* One worker is about to store inside the guarded region while the other
\* waits for the mutex.
C7_Witness ==
    \E w \in Workers, u \in Workers :
        /\ w # u
        /\ pc["safe"][w] = "cs_write"
        /\ pc["safe"][u] = "lock"
        /\ count["safe"] > 0

\* C8 as stated: the mutex is held if and only if exactly one worker is
\* inside increment, and it is free once both workers have been joined.
C8_HeldIffOneInsideIncrement ==
    /\ (mtx # NoHolder) <=> (Cardinality({w \in Workers : InIncrement(w)}) = 1)
    /\ AfterJoins("safe") => mtx = NoHolder

\* C8, amended: the mutex is held if and only if exactly one worker is inside
\* the guarded region of increment (after acquiring mtx, before releasing
\* it), that worker is the holder, and the mutex is free once both workers
\* have been joined.
C8_HeldIffOneInGuardedRegion ==
    /\ (mtx # NoHolder) <=>
          (Cardinality({w \in Workers : InGuardedRegion(w)}) = 1)
    /\ mtx # NoHolder => InGuardedRegion(mtx)
    /\ AfterJoins("safe") => mtx = NoHolder

\* The holder is about to release while the other worker, inside increment
\* too, waits for the mutex.
C8_Witness ==
    \E w \in Workers, u \in Workers :
        /\ w # u
        /\ mtx = w
        /\ pc["safe"][w] = "unlock"
        /\ pc["safe"][u] = "lock"

\* C9: join before read - a result is printed only when both workers of its
\* run have finished, nothing changes the counter of a run after its result
\* has been read, and a worker runs only in the current run, after the
\* results of all earlier runs have been printed.
C9_JoinBeforeRead ==
    /\ \A v \in DOMAIN out :
          /\ \A w \in Workers : pc[v][w] = "done"
          /\ out[v] = count[v]
    /\ pcMain = "print" => \A w \in Workers : pc[Variant][w] = "done"
    /\ \A v \in Variants, w \in Workers :
          pc[v][w] \notin {"idle", "done"} =>
              /\ v = Variant
              /\ \A k \in 1..(run - 1) : Printed(RunOrder[k])

\* The last run has been printed after its workers did all their increments.
C9_Witness ==
    /\ Printed("atomic")
    /\ \A v \in Variants, w \in Workers : Completed(v, w) = Iterations
    /\ \A v \in Variants : out[v] = count[v]

\* C10 as stated: in every reachable state the locked and the atomic counter
\* equal the number of increment calls completed so far.
C10_EqualsCompletedCalls ==
    \A v \in {"safe", "atomic"} \cap DOMAIN count :
        count[v] = CompletedTotal(v)

\* C10, amended: in every reachable state the locked and the atomic counter
\* equal the number of increments performed so far - the calls completed plus
\* the calls that have executed their count++ and not returned yet - so they
\* are at most one per worker above the completed calls, never decrease, and
\* rise by exactly 1 per increment.  The unprotected counter is at most the
\* number of increments started.
C10_EqualsPerformed ==
    /\ [](\A v \in {"safe", "atomic"} \cap DOMAIN count :
             /\ count[v] = PerformedTotal(v)
             /\ count[v] - CompletedTotal(v) \in 0..Cardinality(Workers))
    /\ [](Constructed("unsafe") => count["unsafe"] <= StartedTotal("unsafe"))
    /\ [][\A v \in {"safe", "atomic"} \cap DOMAIN count :
             count'[v] - count[v] \in {0, 1}]_vars

\* A locked increment has stored and not yet released the mutex, so the
\* counter is one above the completed calls; the unprotected counter has
\* ended below the increments performed on it.
C10_Witness ==
    /\ Constructed("safe")
    /\ \E w \in Workers : pc["safe"][w] = "unlock"
    /\ count["safe"] = CompletedTotal("safe") + 1
    /\ count["unsafe"] < PerformedTotal("unsafe")

====
